---- MODULE Spec2Model ----
(***************************************************************************)
(* A model of the GUI widget core: Widget, WidgetBuilder, the default      *)
(* message handler, and the tab control built on top of them.              *)
(*                                                                         *)
(* nodes is the node pool (handle -> Widget), tabs the tab control's tab   *)
(* list, queue the messages sent through ui.send_message and not yet       *)
(* delivered, last_click the destination of the Button Click the control   *)
(* handled last with the index of the tab it activated (0: none), removed  *)
(* the handles of the nodes removed from the pool, ops the number of       *)
(* operations applied so far where a specification bounds them, ret the    *)
(* call and the value returned by the last call of one of the functions    *)
(* that return a value (raw_copy, measure_override, has_descendant,        *)
(* find_by_criteria_up).                                                   *)
(***************************************************************************)
EXTENDS Integers, Sequences, FiniteSets, TLC

VARIABLES nodes, tabs, queue, last_click, removed, ops, ret

vars == <<nodes, tabs, queue, last_click, removed, ops, ret>>

(***************************************************************************)
(* Bounds of the model.                                                    *)
(***************************************************************************)
MaxTabs == 3
MaxQueue == 3
MaxF == 3
MaxOps == 3
MaxRemoved == 2
NumNodes == 3
MaxTreeOps == 2

(***************************************************************************)
(* Handles.  Handle::NONE is 0; live handles are positive.                 *)
(***************************************************************************)
NONE == 0

is_some(h) == h # NONE

is_none(h) == h = NONE

(***************************************************************************)
(* The value of ret before any call has returned.                          *)
(***************************************************************************)
NoRet == [op |-> "none"]

(***************************************************************************)
(* f32.  NaN is -1, finite values are 0..MaxF, INFINITY is above them all. *)
(* Comparisons, max and min follow IEEE 754 as Rust's f32 does: every      *)
(* comparison with NaN is false (so != is true), and max/min return the    *)
(* other operand when one is NaN.                                          *)
(***************************************************************************)
NaN == -1

INFINITY == MaxF + 1

Finite == 0..MaxF

F32 == {NaN} \cup Finite \cup {INFINITY}

is_nan(a) == a = NaN

f32_eq(a, b) == ~is_nan(a) /\ ~is_nan(b) /\ a = b

f32_ne(a, b) == ~f32_eq(a, b)

f32_gt(a, b) == ~is_nan(a) /\ ~is_nan(b) /\ a > b

f32_max(a, b) == IF is_nan(a) THEN b ELSE IF is_nan(b) THEN a ELSE IF a > b THEN a ELSE b

f32_min(a, b) == IF is_nan(a) THEN b ELSE IF is_nan(b) THEN a ELSE IF a < b THEN a ELSE b

(***************************************************************************)
(* Vec2 is <<x, y>>; its != is the derived PartialEq on both components.   *)
(***************************************************************************)
Vec2(x, y) == <<x, y>>

Vec2_ZERO == Vec2(0, 0)

vec2_ne(a, b) == f32_ne(a[1], b[1]) \/ f32_ne(a[2], b[2])

(***************************************************************************)
(* Thickness is <<left, top, right, bottom>>.                              *)
(***************************************************************************)
Thickness_zero == <<0, 0, 0, 0>>

Thickness_uniform(v) == <<v, v, v, v>>

thickness_ne(a, b) == \E i \in 1..4 : f32_ne(a[i], b[i])

Rect_default == <<0, 0, 0, 0>>

(***************************************************************************)
(* Option<T>: None is <<>>, Some(v) is <<v>>.                              *)
(***************************************************************************)
None == <<>>

Some(v) == <<v>>

unwrap_or(o, d) == IF o = None THEN d ELSE o[1]

(***************************************************************************)
(* WidgetBuilder::new and the with_* methods the model uses.               *)
(***************************************************************************)
WidgetBuilder_new ==
    [ name |-> "",
      width |-> NaN,
      height |-> NaN,
      vertical_alignment |-> "Stretch",
      horizontal_alignment |-> "Stretch",
      max_size |-> None,
      min_size |-> None,
      background |-> None,
      foreground |-> None,
      row |-> 0,
      column |-> 0,
      margin |-> Thickness_zero,
      desired_position |-> Vec2_ZERO,
      children |-> <<>>,
      is_hit_test_visible |-> TRUE,
      visibility |-> TRUE,
      z_index |-> 0,
      allow_drag |-> FALSE,
      allow_drop |-> FALSE,
      user_data |-> None,
      draw_on_top |-> FALSE ]

with_width(b, width) == [b EXCEPT !.width = width]

with_height(b, height) == [b EXCEPT !.height = height]

with_max_size(b, max_size) == [b EXCEPT !.max_size = Some(max_size)]

with_min_size(b, min_size) == [b EXCEPT !.min_size = Some(min_size)]

with_visibility(b, visibility) == [b EXCEPT !.visibility = visibility]

with_child(b, handle) ==
    IF is_some(handle) THEN [b EXCEPT !.children = Append(@, handle)] ELSE b

RECURSIVE with_children(_, _)
with_children(b, children) ==
    IF children = <<>> THEN b
    ELSE with_children(with_child(b, Head(children)), Tail(children))

(***************************************************************************)
(* WidgetBuilder::build.                                                   *)
(***************************************************************************)
WidgetBuilder_build(b) ==
    [ handle |-> NONE,
      name |-> b.name,
      desired_local_position |-> b.desired_position,
      width |-> b.width,
      height |-> b.height,
      screen_position |-> Vec2_ZERO,
      desired_size |-> Vec2_ZERO,
      actual_local_position |-> Vec2_ZERO,
      actual_size |-> Vec2_ZERO,
      min_size |-> unwrap_or(b.min_size, Vec2_ZERO),
      max_size |-> unwrap_or(b.max_size, Vec2(INFINITY, INFINITY)),
      background |-> unwrap_or(b.background, "Solid(50,50,50)"),
      foreground |-> unwrap_or(b.foreground, "Solid(WHITE)"),
      row |-> b.row,
      column |-> b.column,
      vertical_alignment |-> b.vertical_alignment,
      horizontal_alignment |-> b.horizontal_alignment,
      margin |-> b.margin,
      visibility |-> b.visibility,
      global_visibility |-> TRUE,
      prev_global_visibility |-> FALSE,
      children |-> b.children,
      parent |-> NONE,
      command_indices |-> <<>>,
      is_mouse_directly_over |-> FALSE,
      measure_valid |-> FALSE,
      arrange_valid |-> FALSE,
      hit_test_visibility |-> b.is_hit_test_visible,
      prev_measure |-> Vec2_ZERO,
      prev_arrange |-> Rect_default,
      z_index |-> b.z_index,
      allow_drag |-> b.allow_drag,
      allow_drop |-> b.allow_drop,
      user_data |-> b.user_data,
      draw_on_top |-> b.draw_on_top ]

(***************************************************************************)
(* Insertion into the pool assigns the widget its handle.                  *)
(***************************************************************************)
add_node(w, h) == [w EXCEPT !.handle = h]

(***************************************************************************)
(* Widget::invalidate_layout.                                              *)
(***************************************************************************)
(* invalidate_layout without the reset of arrange_valid.                   *)
invalidate_measure_only(w) == [w EXCEPT !.measure_valid = FALSE]

(* invalidate_layout that sets the flags instead of clearing them.         *)
invalidate_layout_sets_valid(w) == [w EXCEPT !.measure_valid = TRUE, !.arrange_valid = TRUE]

invalidate_layout(w) == [w EXCEPT !.measure_valid = FALSE, !.arrange_valid = FALSE]

(***************************************************************************)
(* Messages.  data.cat is the UiMessageData variant ("Widget", "Button"),  *)
(* data.kind the message variant, data.val its payload.                    *)
(***************************************************************************)
UiMessage(destination, cat, kind, val) ==
    [destination |-> destination, data |-> [cat |-> cat, kind |-> kind, val |-> val]]

WidgetMessage_visibility(destination, visibility) ==
    UiMessage(destination, "Widget", "Visibility", visibility)

ButtonMessage_click(destination) == UiMessage(destination, "Button", "Click", FALSE)

(***************************************************************************)
(* Widget::handle_routed_message: the match on the WidgetMessage variant.  *)
(***************************************************************************)
widget_match(w, kind, val) ==
    CASE kind = "Background" -> [w EXCEPT !.background = val]
      [] kind = "Foreground" -> [w EXCEPT !.foreground = val]
      [] kind = "Name" -> [w EXCEPT !.name = val]
      [] kind = "Width" ->
            IF f32_ne(w.width, val)
            THEN invalidate_layout([w EXCEPT !.width = val]) ELSE w
      [] kind = "Height" ->
            IF f32_ne(w.height, val)
            THEN invalidate_layout([w EXCEPT !.height = val]) ELSE w
      [] kind = "VerticalAlignment" ->
            IF w.vertical_alignment # val
            THEN invalidate_layout([w EXCEPT !.vertical_alignment = val]) ELSE w
      [] kind = "HorizontalAlignment" ->
            IF w.horizontal_alignment # val
            THEN invalidate_layout([w EXCEPT !.horizontal_alignment = val]) ELSE w
      [] kind = "MaxSize" ->
            IF vec2_ne(w.max_size, val)
            THEN invalidate_layout([w EXCEPT !.max_size = val]) ELSE w
      [] kind = "MinSize" ->
            IF vec2_ne(w.min_size, val)
            THEN invalidate_layout([w EXCEPT !.min_size = val]) ELSE w
      [] kind = "Row" ->
            IF w.row # val THEN invalidate_layout([w EXCEPT !.row = val]) ELSE w
      [] kind = "Column" ->
            IF w.column # val THEN invalidate_layout([w EXCEPT !.column = val]) ELSE w
      [] kind = "Margin" ->
            IF thickness_ne(w.margin, val)
            THEN invalidate_layout([w EXCEPT !.margin = val]) ELSE w
      [] kind = "HitTestVisibility" -> [w EXCEPT !.hit_test_visibility = val]
      [] kind = "Visibility" ->
            IF w.visibility # val
            THEN invalidate_layout([w EXCEPT !.visibility = val]) ELSE w
      [] kind = "DesiredPosition" ->
            IF vec2_ne(w.desired_local_position, val)
            THEN invalidate_layout([w EXCEPT !.desired_local_position = val]) ELSE w
      [] OTHER -> w

(* The handler without the test of the destination.                       *)
Widget_handle_any_destination(w, msg) ==
    IF msg.data.cat = "Widget" THEN widget_match(w, msg.data.kind, msg.data.val) ELSE w

Widget_handle_routed_message(w, msg) ==
    IF msg.destination = w.handle
    THEN IF msg.data.cat = "Widget" THEN widget_match(w, msg.data.kind, msg.data.val) ELSE w
    ELSE w

(***************************************************************************)
(* The tab control.  A Tab is [header_button, content].                    *)
(***************************************************************************)
Tab(header_button, content) == [header_button |-> header_button, content |-> content]

(* The tab condition without its content.is_some() conjunct.               *)
tab_matches_header_only(tab, destination) ==
    /\ destination = tab.header_button
    /\ is_some(tab.header_button)

(* The condition of the click handler's outer loop.                        *)
tab_matches(tab, destination) ==
    /\ destination = tab.header_button
    /\ is_some(tab.header_button)
    /\ is_some(tab.content)

(* The index of the tab the click handler's outer loop stops at (it breaks *)
(* at the first tab that satisfies the condition), or 0 when no tab does.  *)
clicked_tab(ts, destination) ==
    IF \E i \in 1..Len(ts) : tab_matches(ts[i], destination)
    THEN CHOOSE i \in 1..Len(ts) :
            /\ tab_matches(ts[i], destination)
            /\ \A j \in 1..(i - 1) : ~tab_matches(ts[j], destination)
    ELSE 0

(* The inner loop with the comparison j == i negated.                      *)
tab_messages_inverted(ts, i) ==
    [j \in 1..Len(ts) |-> WidgetMessage_visibility(ts[j].content, j # i)]

(* The messages the inner loop sends for the activated tab i.              *)
tab_messages(ts, i) ==
    [j \in 1..Len(ts) |-> WidgetMessage_visibility(ts[j].content, j = i)]

(* The messages TabControl::handle_routed_message sends for msg.           *)
TabControl_sends(ts, msg) ==
    IF msg.data.cat = "Button" /\ msg.data.kind = "Click"
    THEN LET i == clicked_tab(ts, msg.destination)
         IN IF i = 0 THEN <<>> ELSE tab_messages(ts, i)
    ELSE <<>>

(* remove_ref that stops at the first tab it changes.                       *)
remove_ref_first_tab_only(ts, handle) ==
    LET hit(i) == handle \in {ts[i].header_button, ts[i].content}
    IN [i \in 1..Len(ts) |->
           IF hit(i) /\ \A j \in 1..(i - 1) : ~hit(j)
           THEN Tab(IF ts[i].header_button = handle THEN NONE ELSE ts[i].header_button,
                    IF ts[i].content = handle THEN NONE ELSE ts[i].content)
           ELSE ts[i]]

(* TabControl::remove_ref.                                                 *)
TabControl_remove_ref(ts, handle) ==
    [i \in 1..Len(ts) |->
        Tab(IF ts[i].header_button = handle THEN NONE ELSE ts[i].header_button,
            IF ts[i].content = handle THEN NONE ELSE ts[i].content)]

(***************************************************************************)
(* The handles of the tab-control scenario: the content nodes come first,  *)
(* then the header buttons the builder creates, then the control itself.   *)
(* The content nodes and the control are Widgets of the pool; the header   *)
(* buttons are Button nodes, known to the control by their handles only.   *)
(***************************************************************************)
ContentHandles == 1..MaxTabs

ButtonHandle(i) == MaxTabs + i

ButtonHandles == {ButtonHandle(i) : i \in 1..MaxTabs}

ControlHandle == 2 * MaxTabs + 1

(* The first loop of build without its test i > 0.                         *)
TabControlBuilder_hide_all(pool, defs) ==
    [h \in DOMAIN pool |->
        IF \E i \in 1..Len(defs) : defs[i] = h
        THEN [pool[h] EXCEPT !.visibility = FALSE]
        ELSE pool[h]]

(* TabControlBuilder::build over the pool: hides the content of every tab  *)
(* but the first, creates one button per tab, pairs them with the content. *)
TabControlBuilder_hide(pool, defs) ==
    [h \in DOMAIN pool |->
        IF \E i \in 2..Len(defs) : defs[i] = h
        THEN [pool[h] EXCEPT !.visibility = FALSE]
        ELSE pool[h]]

TabControlBuilder_tabs(defs) ==
    [i \in 1..Len(defs) |-> Tab(ButtonHandle(i), defs[i])]

(* Handles are opaque and only ever compared, so the tab definitions are   *)
(* taken up to renaming: each tab's content is a node an earlier tab uses   *)
(* or the next unused content node.                                        *)
MaxOf(S) == CHOOSE m \in S : \A x \in S : x <= m

ContentDefs ==
    UNION {{d \in [1..n -> ContentHandles] :
                /\ d[1] = 1
                /\ \A i \in 2..n : d[i] <= 1 + MaxOf({d[j] : j \in 1..(i - 1)})}
           : n \in 1..MaxTabs}

InitTab ==
    /\ \E defs \in ContentDefs, vis \in BOOLEAN :
          LET pool == [h \in ContentHandles \cup {ControlHandle} |->
                          add_node(WidgetBuilder_build(
                              IF h \in ContentHandles
                              THEN with_visibility(WidgetBuilder_new, vis)
                              ELSE WidgetBuilder_new), h)]
          IN /\ nodes = TabControlBuilder_hide(pool, defs)
             /\ tabs = TabControlBuilder_tabs(defs)
    /\ queue = <<>>
    /\ last_click = [destination |-> NONE, tab |-> 0]
    /\ removed = {}
    /\ ret = NoRet
    /\ ops = 0

(* A Button Click with the given destination is routed to the tab control: *)
(* the control's own widget handles it first, then the click handler sends *)
(* the visibility messages.                                                *)
Click(h) ==
    LET msg == ButtonMessage_click(h)
        sent == TabControl_sends(tabs, msg)
    IN /\ Len(queue) + Len(sent) <= MaxQueue
       /\ nodes' = [nodes EXCEPT ![ControlHandle] = Widget_handle_routed_message(@, msg)]
       /\ queue' = queue \o sent
       /\ last_click' = [destination |-> h, tab |-> clicked_tab(tabs, h)]
       /\ UNCHANGED <<tabs, removed, ops, ret>>

(* The oldest queued message is delivered: every node's handler sees it,   *)
(* and so does the tab control's.                                          *)
Dispatch ==
    /\ queue # <<>>
    /\ LET msg == Head(queue)
           sent == TabControl_sends(tabs, msg)
       IN /\ nodes' = [h \in DOMAIN nodes |-> Widget_handle_routed_message(nodes[h], msg)]
          /\ queue' = Tail(queue) \o sent
    /\ UNCHANGED <<tabs, last_click, removed, ops, ret>>

(* A node a tab refers to is removed from the pool, and the pool calls the *)
(* control's remove_ref with its handle.                                   *)
RemoveRef(h) ==
    /\ \E i \in 1..Len(tabs) : h \in {tabs[i].header_button, tabs[i].content}
    /\ Cardinality(removed) < MaxRemoved
    /\ removed' = removed \cup {h}
    /\ nodes' = [n \in DOMAIN nodes \ {h} |-> nodes[n]]
    /\ tabs' = TabControl_remove_ref(tabs, h)
    /\ UNCHANGED <<queue, last_click, ops, ret>>

NextTab ==
    \/ \E h \in ButtonHandles \cup {NONE} : Click(h)
    \/ Dispatch
    \/ \E h \in ContentHandles \cup ButtonHandles : RemoveRef(h)

SpecTab == InitTab /\ [][NextTab]_vars

(***************************************************************************)
(* SpecBuild: the content nodes exist in the pool with any visibility,     *)
(* then TabControlBuilder::build runs on some tab definitions (it inserts  *)
(* the control's own node last), then the control handles clicks.          *)
(***************************************************************************)
TabControlBuilder_build(pool, defs) ==
    LET hidden == TabControlBuilder_hide(pool, defs)
    IN [h \in DOMAIN pool \cup {ControlHandle} |->
           IF h = ControlHandle
           THEN add_node(WidgetBuilder_build(WidgetBuilder_new), h)
           ELSE hidden[h]]

InitBuild ==
    /\ \E vis \in [ContentHandles -> BOOLEAN] :
          nodes = [h \in ContentHandles |->
                      add_node(WidgetBuilder_build(with_visibility(WidgetBuilder_new, vis[h])), h)]
    /\ tabs = <<>>
    /\ queue = <<>>
    /\ last_click = [destination |-> NONE, tab |-> 0]
    /\ removed = {}
    /\ ret = NoRet
    /\ ops = 0

Build(defs) ==
    /\ tabs = <<>>
    /\ nodes' = TabControlBuilder_build(nodes, defs)
    /\ tabs' = TabControlBuilder_tabs(defs)
    /\ UNCHANGED <<queue, last_click, removed, ops, ret>>

NextBuild ==
    \/ \E defs \in ContentDefs : Build(defs)
    \/ tabs # <<>> /\ \E h \in ButtonHandles \cup {NONE} : Click(h)
    \/ tabs # <<>> /\ Dispatch

SpecBuild == InitBuild /\ [][NextBuild]_vars

(***************************************************************************)
(* The direct setters of Widget.                                           *)
(***************************************************************************)
set_min_size(w, value) == [w EXCEPT !.min_size = value]

set_max_size(w, value) == [w EXCEPT !.max_size = value]

set_width(w, width) ==
    [w EXCEPT !.width = f32_min(f32_max(width, w.min_size[1]), w.max_size[1])]

set_height(w, height) ==
    [w EXCEPT !.height = f32_min(f32_max(height, w.min_size[2]), w.max_size[2])]

set_desired_local_position(w, pos) == [w EXCEPT !.desired_local_position = pos]

set_row(w, row) == [w EXCEPT !.row = row]

set_column(w, column) == [w EXCEPT !.column = column]

set_margin(w, margin) == [w EXCEPT !.margin = margin]

(* set_visibility that invalidates the layout as the message does.         *)
set_visibility_invalidates(w, visibility) ==
    invalidate_layout([w EXCEPT !.visibility = visibility])

set_visibility(w, visibility) == [w EXCEPT !.visibility = visibility]

set_vertical_alignment(w, vertical_alignment) ==
    [w EXCEPT !.vertical_alignment = vertical_alignment]

set_horizontal_alignment(w, horizontal_alignment) ==
    [w EXCEPT !.horizontal_alignment = horizontal_alignment]

set_parent(w, parent) == [w EXCEPT !.parent = parent]

(* set_global_visibility without the assignment of the new value.          *)
set_global_visibility_prev_only(w, value) ==
    [w EXCEPT !.prev_global_visibility = w.global_visibility]

(* Widget::set_global_visibility.                                          *)
set_global_visibility(w, value) ==
    [w EXCEPT !.prev_global_visibility = w.global_visibility, !.global_visibility = value]

(***************************************************************************)
(* The child list.                                                         *)
(***************************************************************************)
(* add_child without the call of invalidate_layout.                        *)
add_child_keeps_layout(w, child) == [w EXCEPT !.children = Append(@, child)]

(* Widget::add_child, clear_children, set_children.                        *)
add_child(w, child) == [invalidate_layout(w) EXCEPT !.children = Append(@, child)]

clear_children(w) == [invalidate_layout(w) EXCEPT !.children = <<>>]

set_children(w, children) == [invalidate_layout(w) EXCEPT !.children = children]

(* children.iter().position(|h| *h == child): the first index, or 0.       *)
position(children, child) ==
    IF \E i \in 1..Len(children) : children[i] = child
    THEN CHOOSE i \in 1..Len(children) :
            /\ children[i] = child
            /\ \A j \in 1..(i - 1) : children[j] # child
    ELSE 0

remove_at(children, i) ==
    [j \in 1..(Len(children) - 1) |-> IF j < i THEN children[j] ELSE children[j + 1]]

(* remove_child without the removal of the entry it found.                 *)
remove_child_keeps_entry(w, child) ==
    IF position(w.children, child) # 0 THEN invalidate_layout(w) ELSE w

(* Widget::remove_child: removes the first occurrence and invalidates the  *)
(* layout, only when the handle is in the list.                            *)
remove_child(w, child) ==
    LET i == position(w.children, child)
    IN IF i # 0
       THEN invalidate_layout([w EXCEPT !.children = remove_at(@, i)])
       ELSE w

(***************************************************************************)
(* The results of a layout pass.                                           *)
(***************************************************************************)
(* commit_measure that marks the arrangement valid as well.                *)
commit_measure_sets_both(w, desired_size) ==
    [w EXCEPT !.desired_size = desired_size, !.measure_valid = TRUE, !.arrange_valid = TRUE]

commit_measure(w, desired_size) ==
    [w EXCEPT !.desired_size = desired_size, !.measure_valid = TRUE]

commit_arrange(w, position_, size) ==
    [w EXCEPT !.actual_size = size, !.actual_local_position = position_,
              !.arrange_valid = TRUE]

(***************************************************************************)
(* The struct expression of Widget::raw_copy, field by field.              *)
(***************************************************************************)
raw_copy_fields(w) ==
    [handle |-> NONE,
      name |-> w.name,
      desired_local_position |-> w.desired_local_position,
      width |-> w.width,
      height |-> w.height,
      screen_position |-> w.screen_position,
      desired_size |-> w.desired_size,
      actual_local_position |-> w.actual_local_position,
      actual_size |-> w.actual_size,
      min_size |-> w.min_size,
      max_size |-> w.max_size,
      background |-> w.background,
      foreground |-> w.foreground,
      row |-> w.row,
      column |-> w.column,
      vertical_alignment |-> w.vertical_alignment,
      horizontal_alignment |-> w.horizontal_alignment,
      margin |-> w.margin,
      visibility |-> w.visibility,
      global_visibility |-> w.global_visibility,
      prev_global_visibility |-> FALSE,
      children |-> w.children,
      parent |-> w.parent,
      command_indices |-> <<>>,
      is_mouse_directly_over |-> w.is_mouse_directly_over,
      measure_valid |-> FALSE,
      arrange_valid |-> FALSE,
      hit_test_visibility |-> w.hit_test_visibility,
      prev_measure |-> Vec2_ZERO,
      prev_arrange |-> Rect_default,
      z_index |-> w.z_index,
      allow_drop |-> w.allow_drop,
      allow_drag |-> w.allow_drag,
      user_data |-> w.user_data,
      draw_on_top |-> w.draw_on_top ]

(***************************************************************************)
(* Widget::raw_copy, field by field.                                       *)
(***************************************************************************)
(* raw_copy that clones the layout flags like the other Cells.             *)
raw_copy_keeps_flags(w) ==
    [raw_copy_fields(w) EXCEPT !.measure_valid = w.measure_valid,
                               !.arrange_valid = w.arrange_valid]

(* raw_copy that copies prev_measure and prev_arrange.                     *)
raw_copy_keeps_prev(w) ==
    [raw_copy_fields(w) EXCEPT !.prev_measure = w.prev_measure,
                               !.prev_arrange = w.prev_arrange]

raw_copy(w) == raw_copy_fields(w)

(***************************************************************************)
(* One widget under test: node W of a pool that holds it alone.  Other is  *)
(* the handle of some other node, used as a child and as the destination   *)
(* of messages that are not for W.                                         *)
(***************************************************************************)
W == NONE + 1

Other == W + 1

Vec2Inputs == {Vec2_ZERO, Vec2(1, MaxF - 1), Vec2(MaxF - 1, 1), Vec2(INFINITY, INFINITY)}

PosInputs == {Vec2_ZERO, Vec2(1, 1)}

AlignInputs == {"Stretch", "Center"}

IndexInputs == {0, 1}

MarginInputs == {Thickness_zero, Thickness_uniform(1)}

BrushInputs == {"Solid(50,50,50)", "Solid(WHITE)"}

NameInputs == {"", "w"}

(* The payloads a message of each kind is delivered with.                  *)
PayloadsOf(kind) ==
    CASE kind \in {"Width", "Height"} -> F32
      [] kind \in {"MaxSize", "MinSize"} -> Vec2Inputs
      [] kind = "DesiredPosition" -> PosInputs
      [] kind \in {"VerticalAlignment", "HorizontalAlignment"} -> AlignInputs
      [] kind \in {"Row", "Column"} -> IndexInputs
      [] kind = "Margin" -> MarginInputs
      [] kind \in {"Visibility", "HitTestVisibility"} -> BOOLEAN
      [] kind \in {"Background", "Foreground"} -> BrushInputs
      [] kind = "Name" -> NameInputs

LayoutKinds ==
    {"Width", "Height", "VerticalAlignment", "HorizontalAlignment", "MaxSize", "MinSize",
     "Row", "Column", "Margin", "Visibility", "DesiredPosition"}

WidgetKinds == LayoutKinds \cup {"Background", "Foreground", "Name", "HitTestVisibility"}

(* The field of the widget a layout-affecting message kind stores into.    *)
FieldOf(w, kind) ==
    CASE kind = "Width" -> w.width
      [] kind = "Height" -> w.height
      [] kind = "VerticalAlignment" -> w.vertical_alignment
      [] kind = "HorizontalAlignment" -> w.horizontal_alignment
      [] kind = "MaxSize" -> w.max_size
      [] kind = "MinSize" -> w.min_size
      [] kind = "Row" -> w.row
      [] kind = "Column" -> w.column
      [] kind = "Margin" -> w.margin
      [] kind = "Visibility" -> w.visibility
      [] kind = "DesiredPosition" -> w.desired_local_position

BuilderConfigs ==
    { WidgetBuilder_new,
      with_width(with_max_size(WidgetBuilder_new, Vec2(1, MaxF - 1)), MaxF),
      with_height(with_min_size(WidgetBuilder_new, Vec2(MaxF - 1, 1)), 0),
      with_visibility(WidgetBuilder_new, FALSE),
      with_child(WidgetBuilder_new, Other) }

InitWidget ==
    /\ \E b \in BuilderConfigs : nodes = [h \in {W} |-> add_node(WidgetBuilder_build(b), h)]
    /\ tabs = <<>>
    /\ queue = <<>>
    /\ last_click = [destination |-> NONE, tab |-> 0]
    /\ removed = {}
    /\ ret = NoRet
    /\ ops = 0

(* Every operation on W counts towards MaxOps and leaves the rest alone.   *)
Counted ==
    /\ ops < MaxOps
    /\ ops' = ops + 1
    /\ UNCHANGED <<tabs, queue, last_click, removed, ret>>

Deliver(destination, kind, val) ==
    /\ nodes' = [nodes EXCEPT ![W] =
                    Widget_handle_routed_message(@, UiMessage(destination, "Widget", kind, val))]
    /\ Counted

DeliverButton(destination) ==
    /\ nodes' = [nodes EXCEPT ![W] =
                    Widget_handle_routed_message(@, ButtonMessage_click(destination))]
    /\ Counted

(* A WidgetMessage of a variant the match has no arm for (it falls to the  *)
(* `_ => ()` arm).                                                         *)
DeliverUnmatched(destination) ==
    /\ nodes' = [nodes EXCEPT ![W] =
                    Widget_handle_routed_message(@,
                        UiMessage(destination, "Widget", "Unmatched", FALSE))]
    /\ Counted

SetWidth(v) ==
    /\ nodes' = [nodes EXCEPT ![W] = set_width(@, v)]
    /\ Counted

SetHeight(v) ==
    /\ nodes' = [nodes EXCEPT ![W] = set_height(@, v)]
    /\ Counted

SetMinSize(v) ==
    /\ nodes' = [nodes EXCEPT ![W] = set_min_size(@, v)]
    /\ Counted

SetMaxSize(v) ==
    /\ nodes' = [nodes EXCEPT ![W] = set_max_size(@, v)]
    /\ Counted

SetDesiredLocalPosition(v) ==
    /\ nodes' = [nodes EXCEPT ![W] = set_desired_local_position(@, v)]
    /\ Counted

SetRow(v) ==
    /\ nodes' = [nodes EXCEPT ![W] = set_row(@, v)]
    /\ Counted

SetColumn(v) ==
    /\ nodes' = [nodes EXCEPT ![W] = set_column(@, v)]
    /\ Counted

SetMargin(v) ==
    /\ nodes' = [nodes EXCEPT ![W] = set_margin(@, v)]
    /\ Counted

SetVisibility(v) ==
    /\ nodes' = [nodes EXCEPT ![W] = set_visibility(@, v)]
    /\ Counted

SetVerticalAlignment(v) ==
    /\ nodes' = [nodes EXCEPT ![W] = set_vertical_alignment(@, v)]
    /\ Counted

SetHorizontalAlignment(v) ==
    /\ nodes' = [nodes EXCEPT ![W] = set_horizontal_alignment(@, v)]
    /\ Counted

AddChild(h) ==
    /\ nodes' = [nodes EXCEPT ![W] = add_child(@, h)]
    /\ Counted

RemoveChild(h) ==
    /\ nodes' = [nodes EXCEPT ![W] = remove_child(@, h)]
    /\ Counted

ClearChildren ==
    /\ nodes' = [nodes EXCEPT ![W] = clear_children(@)]
    /\ Counted

CommitMeasure(size) ==
    /\ nodes' = [nodes EXCEPT ![W] = commit_measure(@, size)]
    /\ Counted

CommitArrange(pos, size) ==
    /\ nodes' = [nodes EXCEPT ![W] = commit_arrange(@, pos, size)]
    /\ Counted

Setter ==
    \/ \E v \in F32 : SetWidth(v)
    \/ \E v \in F32 : SetHeight(v)
    \/ \E v \in Vec2Inputs : SetMinSize(v)
    \/ \E v \in Vec2Inputs : SetMaxSize(v)
    \/ \E v \in PosInputs : SetDesiredLocalPosition(v)
    \/ \E v \in IndexInputs : SetRow(v)
    \/ \E v \in IndexInputs : SetColumn(v)
    \/ \E v \in MarginInputs : SetMargin(v)
    \/ \E v \in BOOLEAN : SetVisibility(v)
    \/ \E v \in AlignInputs : SetVerticalAlignment(v)
    \/ \E v \in AlignInputs : SetHorizontalAlignment(v)

Message ==
    \/ \E d \in {W, Other}, kind \in WidgetKinds : \E val \in PayloadsOf(kind) :
          Deliver(d, kind, val)
    \/ \E d \in {W, Other} : DeliverButton(d)

ChildOp ==
    \/ \E h \in {Other, Other + 1} : AddChild(h)
    \/ \E h \in {Other, Other + 1} : RemoveChild(h)
    \/ ClearChildren

Commit ==
    \/ \E size \in PosInputs : CommitMeasure(size)
    \/ \E size \in PosInputs : CommitArrange(Vec2_ZERO, size)

NextWidget == Setter \/ Message \/ ChildOp \/ Commit

SpecWidget == InitWidget /\ [][NextWidget]_vars

(***************************************************************************)
(* SpecLayout: the layout state of the widget W: the commits of the two    *)
(* passes, invalidate_layout, and two of the mutations that call it.       *)
(***************************************************************************)
InvalidateLayout ==
    /\ nodes' = [nodes EXCEPT ![W] = invalidate_layout(@)]
    /\ Counted

NextLayout ==
    \/ \E size \in PosInputs : CommitMeasure(size)
    \/ \E pos \in PosInputs, size \in PosInputs : CommitArrange(pos, size)
    \/ InvalidateLayout
    \/ \E h \in {Other, Other + 1} : AddChild(h)
    \/ \E v \in BOOLEAN : Deliver(W, "Visibility", v)

SpecLayout == InitWidget /\ [][NextLayout]_vars

(***************************************************************************)
(* SpecSetters: the direct setters next to the layout commits.             *)
(***************************************************************************)
NextSetters == Setter \/ Commit

SpecSetters == InitWidget /\ [][NextSetters]_vars

(***************************************************************************)
(* SpecMsg: message processing next to the layout commits.  Either the     *)
(* widget W alone receives messages of every kind and is committed, or a   *)
(* tab control whose nodes have all been measured and arranged handles     *)
(* clicks and the messages it sends are dispatched.                        *)
(***************************************************************************)
ArrangedPool(pool) ==
    [h \in DOMAIN pool |->
        commit_arrange(commit_measure(pool[h], Vec2(1, 1)), Vec2_ZERO, Vec2(1, 1))]

InitTabArranged ==
    /\ \E defs \in ContentDefs, vis \in BOOLEAN :
          LET pool == [h \in ContentHandles \cup {ControlHandle} |->
                          add_node(WidgetBuilder_build(
                              IF h \in ContentHandles
                              THEN with_visibility(WidgetBuilder_new, vis)
                              ELSE WidgetBuilder_new), h)]
          IN /\ nodes = ArrangedPool(TabControlBuilder_hide(pool, defs))
             /\ tabs = TabControlBuilder_tabs(defs)
    /\ queue = <<>>
    /\ last_click = [destination |-> NONE, tab |-> 0]
    /\ removed = {}
    /\ ret = NoRet
    /\ ops = 0

InitMsg == InitWidget \/ InitTabArranged

NextMsg ==
    \/ tabs = <<>> /\ Message
    \/ tabs = <<>> /\ \E d \in {W, Other} : DeliverUnmatched(d)
    \/ tabs = <<>> /\ Commit
    \/ tabs # <<>> /\ \E h \in ButtonHandles \cup {NONE} : Click(h)
    \/ tabs # <<>> /\ Dispatch

SpecMsg == InitMsg /\ [][NextMsg]_vars

(***************************************************************************)
(* SpecCopy: the widget W goes through the operations of SpecWidget and    *)
(* through the writes the layout and drawing passes make to its caches     *)
(* (prev_measure, prev_arrange, command_indices), and is then copied with  *)
(* raw_copy; ret holds the copy.                                           *)
(***************************************************************************)
StorePrevMeasure(available_size) ==
    /\ nodes' = [nodes EXCEPT ![W].prev_measure = available_size]
    /\ Counted

StorePrevArrange(final_rect) ==
    /\ nodes' = [nodes EXCEPT ![W].prev_arrange = final_rect]
    /\ Counted

PushCommandIndex(index) ==
    /\ nodes' = [nodes EXCEPT ![W].command_indices = Append(@, index)]
    /\ Counted

RawCopy ==
    /\ ret = NoRet
    /\ ret' = [op |-> "raw_copy", value |-> raw_copy(nodes[W])]
    /\ UNCHANGED <<nodes, tabs, queue, last_click, removed, ops>>

NextCopy ==
    \/ ret = NoRet /\ ChildOp
    \/ ret = NoRet /\ Commit
    \/ ret = NoRet /\ \E v \in BOOLEAN : SetVisibility(v)
    \/ ret = NoRet /\ \E v \in Finite : SetWidth(v)
    \/ ret = NoRet /\ StorePrevMeasure(Vec2(1, 1))
    \/ ret = NoRet /\ StorePrevArrange(<<0, 0, 1, 1>>)
    \/ ret = NoRet /\ PushCommandIndex(0)
    \/ RawCopy

SpecCopy == InitWidget /\ [][NextCopy]_vars

(***************************************************************************)
(* resolve and raw_copy of the tab control.  A NodeHandleMapping is a      *)
(* function from old handles to new ones; its DOMAIN is its set of keys.   *)
(***************************************************************************)
(* HashMap::get: the entry of the key, or None.                            *)
node_map_get(node_map, h) ==
    IF h \in DOMAIN node_map THEN Some(node_map[h]) ELSE None

(* The loop of resolve from tab i on.  unwrap() of None panics: the loop   *)
(* stops there, with the fields it has rewritten so far.                   *)
RECURSIVE resolve_from(_, _, _)

resolve_from(ts, node_map, i) ==
    IF i > Len(ts)
    THEN [tabs |-> ts, panicked |-> FALSE]
    ELSE LET header_button == node_map_get(node_map, ts[i].header_button)
             content == node_map_get(node_map, ts[i].content)
         IN IF header_button = None
            THEN [tabs |-> ts, panicked |-> TRUE]
            ELSE LET with_header == [ts EXCEPT ![i].header_button = header_button[1]]
                 IN IF content = None
                    THEN [tabs |-> with_header, panicked |-> TRUE]
                    ELSE resolve_from([with_header EXCEPT ![i].content = content[1]],
                                      node_map, i + 1)

(* TabControl::resolve.                                                    *)
TabControl_resolve(ts, node_map) == resolve_from(ts, node_map, 1)

(* raw_copy that clones the tab list.                                      *)
TabControl_raw_copy_keeps_tabs(widget, ts) == [widget |-> raw_copy(widget), tabs |-> ts]

(* TabControl::raw_copy: the widget's raw_copy and a default tab list.     *)
TabControl_raw_copy(widget, ts) == [widget |-> raw_copy(widget), tabs |-> <<>>]

(* The nodes of the arena: the contents, the header buttons and the        *)
(* control, less the removed ones.                                         *)
LiveHandles == (ContentHandles \cup ButtonHandles \cup {ControlHandle}) \ removed

(* The maps of a bulk clone: every live node has an entry, its image is    *)
(* the node itself or its copy in a fresh range of handles, and the map    *)
(* has or has not an entry for NONE as well.                               *)
NodeMaps ==
    {[h \in keys |-> IF h = NONE THEN NONE ELSE h + shift] :
        keys \in {LiveHandles, LiveHandles \cup {NONE}}, shift \in {0, ControlHandle}}

(***************************************************************************)
(* SpecResolve: a built tab control loses nodes to remove_ref; then it is  *)
(* resolved, or it is copied and the copy is resolved and clicked.  ret    *)
(* holds what the call returned: the copy, the messages it sent, whether   *)
(* resolve panicked.                                                       *)
(***************************************************************************)
Resolve(node_map) ==
    LET r == TabControl_resolve(tabs, node_map)
    IN /\ ret = NoRet
       /\ tabs' = r.tabs
       /\ ret' = [op |-> "resolve", node_map |-> node_map, before |-> tabs,
                  panicked |-> r.panicked]
       /\ UNCHANGED <<nodes, queue, last_click, removed, ops>>

RawCopyControl ==
    /\ ret = NoRet
    /\ ret' = [op |-> "raw_copy", copy |-> TabControl_raw_copy(nodes[ControlHandle], tabs)]
    /\ UNCHANGED <<nodes, tabs, queue, last_click, removed, ops>>

ResolveCopy(node_map) ==
    LET r == TabControl_resolve(ret.copy.tabs, node_map)
    IN /\ ret.op = "raw_copy"
       /\ ret' = [op |-> "resolve_copy", copy |-> [ret.copy EXCEPT !.tabs = r.tabs],
                  before |-> ret.copy, panicked |-> r.panicked]
       /\ UNCHANGED <<nodes, tabs, queue, last_click, removed, ops>>

ClickCopy(h) ==
    LET msg == ButtonMessage_click(h)
    IN /\ ret.op \in {"raw_copy", "resolve_copy"}
       /\ ret' = [op |-> "click_copy", destination |-> h,
                  copy |-> [ret.copy EXCEPT
                               !.widget = Widget_handle_routed_message(@, msg)],
                  before |-> ret.copy,
                  sent |-> TabControl_sends(ret.copy.tabs, msg)]
       /\ UNCHANGED <<nodes, tabs, queue, last_click, removed, ops>>

NextResolve ==
    \/ ret = NoRet /\ \E h \in ContentHandles \cup ButtonHandles : RemoveRef(h)
    \/ \E node_map \in NodeMaps : Resolve(node_map)
    \/ RawCopyControl
    \/ \E node_map \in NodeMaps : ResolveCopy(node_map)
    \/ \E h \in ButtonHandles \cup {NONE} : ClickCopy(h)

SpecResolve == InitTab /\ [][NextResolve]_vars

(***************************************************************************)
(* A tree of widgets: nodes 1..NumNodes of the pool.  The trees a state    *)
(* starts from are the forests in which every node's parent has a smaller  *)
(* handle; each node is built by WidgetBuilder, inserted, and linked under *)
(* its parent in handle order.                                             *)
(***************************************************************************)
TreeHandles == 1..NumNodes

Shapes == {p \in [TreeHandles -> TreeHandles \cup {NONE}] : \A n \in TreeHandles : p[n] < n}

RECURSIVE ChildrenIn(_, _, _)
ChildrenIn(shape, parent, from) ==
    IF from > NumNodes THEN <<>>
    ELSE IF shape[from] = parent
         THEN <<from>> \o ChildrenIn(shape, parent, from + 1)
         ELSE ChildrenIn(shape, parent, from + 1)

BuiltTree(shape, vis) ==
    [n \in TreeHandles |->
        set_parent(
            add_node(WidgetBuilder_build(
                         with_children(with_visibility(WidgetBuilder_new, vis[n]),
                                       ChildrenIn(shape, n, 1))), n),
            shape[n])]

(* Paired calls on two nodes of the pool, one after the other.             *)
(* unlink_node: remove_child on the child's parent, then set_parent(NONE)  *)
(* on the child.  link_nodes: that, then set_parent(parent) on the child   *)
(* and add_child on the parent.                                            *)
unlink_node(pool, child) ==
    LET old == pool[child].parent
        removed_from_old == IF old \in DOMAIN pool
                            THEN [pool EXCEPT ![old] = remove_child(@, child)]
                            ELSE pool
    IN [removed_from_old EXCEPT ![child] = set_parent(@, NONE)]

link_nodes(pool, child, parent) ==
    LET unlinked == unlink_node(pool, child)
        reparented == [unlinked EXCEPT ![child] = set_parent(@, parent)]
    IN [reparented EXCEPT ![parent] = add_child(@, child)]

(* The visibility a node gets in the update pass: its own visibility and   *)
(* its parent's new global visibility.                                     *)
RECURSIVE EffectiveVisibility(_, _)
EffectiveVisibility(pool, n) ==
    /\ pool[n].visibility
    /\ is_some(pool[n].parent) => EffectiveVisibility(pool, pool[n].parent)

update_visibility(pool) ==
    [n \in DOMAIN pool |-> set_global_visibility(pool[n], EffectiveVisibility(pool, n))]

(***************************************************************************)
(* SpecVis: visibility in a tree of fixed shape.                           *)
(***************************************************************************)
Rest == <<tabs, queue, last_click, removed, ret>>

InitRest ==
    /\ tabs = <<>>
    /\ queue = <<>>
    /\ last_click = [destination |-> NONE, tab |-> 0]
    /\ removed = {}
    /\ ret = NoRet
    /\ ops = 0

InitVis ==
    /\ \E shape \in Shapes, vis \in [TreeHandles -> BOOLEAN] : nodes = BuiltTree(shape, vis)
    /\ InitRest

SetVisibilityOf(n, v) ==
    /\ nodes' = [nodes EXCEPT ![n] = set_visibility(@, v)]
    /\ UNCHANGED <<Rest, ops>>

DeliverVisibility(d, v) ==
    /\ nodes' = [n \in DOMAIN nodes |->
                    Widget_handle_routed_message(nodes[n], WidgetMessage_visibility(d, v))]
    /\ UNCHANGED <<Rest, ops>>

SetGlobalVisibilityOf(n, v) ==
    /\ nodes' = [nodes EXCEPT ![n] = set_global_visibility(@, v)]
    /\ UNCHANGED <<Rest, ops>>

UpdateVisibility ==
    /\ nodes' = update_visibility(nodes)
    /\ UNCHANGED <<Rest, ops>>

NextVis ==
    \/ \E n \in TreeHandles, v \in BOOLEAN : SetVisibilityOf(n, v)
    \/ \E d \in TreeHandles, v \in BOOLEAN : DeliverVisibility(d, v)
    \/ \E n \in TreeHandles, v \in BOOLEAN : SetGlobalVisibilityOf(n, v)
    \/ UpdateVisibility

SpecVis == InitVis /\ [][NextVis]_vars

(***************************************************************************)
(* SpecTree: the child lists and parent links of the tree.                 *)
(***************************************************************************)
StartShapes ==
    { [n \in TreeHandles |-> NONE],
      [n \in TreeHandles |-> n - 1],
      [n \in TreeHandles |-> IF n = 1 THEN NONE ELSE 1] }

ChildLists == {<<>>} \cup {<<c>> : c \in TreeHandles}

InitTree ==
    /\ \E shape \in StartShapes : nodes = BuiltTree(shape, [n \in TreeHandles |-> TRUE])
    /\ InitRest

CountedTree ==
    /\ ops < MaxTreeOps
    /\ ops' = ops + 1
    /\ UNCHANGED Rest

AddChildOf(n, c) ==
    /\ nodes' = [nodes EXCEPT ![n] = add_child(@, c)]
    /\ CountedTree

RemoveChildOf(n, c) ==
    /\ nodes' = [nodes EXCEPT ![n] = remove_child(@, c)]
    /\ CountedTree

ClearChildrenOf(n) ==
    /\ nodes' = [nodes EXCEPT ![n] = clear_children(@)]
    /\ CountedTree

SetChildrenOf(n, children) ==
    /\ nodes' = [nodes EXCEPT ![n] = set_children(@, children)]
    /\ CountedTree

SetParentOf(n, parent) ==
    /\ nodes' = [nodes EXCEPT ![n] = set_parent(@, parent)]
    /\ CountedTree

LinkNodes(child, parent) ==
    /\ child # parent
    /\ nodes' = link_nodes(nodes, child, parent)
    /\ CountedTree

UnlinkNode(child) ==
    /\ nodes' = unlink_node(nodes, child)
    /\ CountedTree

NextTree ==
    \/ \E n, c \in TreeHandles : AddChildOf(n, c)
    \/ \E n, c \in TreeHandles : RemoveChildOf(n, c)
    \/ \E n \in TreeHandles : ClearChildrenOf(n)
    \/ \E n \in TreeHandles, children \in ChildLists : SetChildrenOf(n, children)
    \/ \E n \in TreeHandles, parent \in TreeHandles \cup {NONE} : SetParentOf(n, parent)
    \/ \E c, parent \in TreeHandles : LinkNodes(c, parent)
    \/ \E c \in TreeHandles : UnlinkNode(c)

SpecTree == InitTree /\ [][NextTree]_vars

(***************************************************************************)
(* The measure pass.  measure is the per-node entry of the pass: a node    *)
(* that is measure-valid for the same available size is skipped; otherwise *)
(* its measure_override runs, the result is clamped into the node's        *)
(* [min_size, max_size], cached with commit_measure, and the available     *)
(* size is remembered in prev_measure.  measure_override is the base       *)
(* Widget's: its loop is measure_children, which threads the pool through  *)
(* the children, keeps the running size and records the calls it makes.    *)
(***************************************************************************)
RECURSIVE measure(_, _, _)
RECURSIVE measure_children(_, _, _, _, _)
RECURSIVE measure_override(_, _, _)

(* measure_override whose loop starts at the second child.                 *)
measure_override_skips_first(pool, n, available_size) ==
    IF pool[n].children = <<>>
    THEN measure_children(pool, <<>>, available_size, Vec2_ZERO, <<>>)
    ELSE measure_children(pool, Tail(pool[n].children), available_size, Vec2_ZERO, <<>>)

measure_override(pool, n, available_size) ==
    measure_children(pool, pool[n].children, available_size, Vec2_ZERO, <<>>)

measure(pool, n, available_size) ==
    IF pool[n].measure_valid /\ pool[n].prev_measure = available_size
    THEN pool
    ELSE LET r == measure_override(pool, n, available_size)
             w == r.pool[n]
             desired == Vec2(f32_min(f32_max(r.size[1], w.min_size[1]), w.max_size[1]),
                             f32_min(f32_max(r.size[2], w.min_size[2]), w.max_size[2]))
         IN [r.pool EXCEPT ![n] = [commit_measure(w, desired)
                                      EXCEPT !.prev_measure = available_size]]

measure_children(pool, children, available_size, size, calls) ==
    IF children = <<>>
    THEN [pool |-> pool, size |-> size, calls |-> calls]
    ELSE LET child_handle == Head(children)
             measured == measure(pool, child_handle, available_size)
             child_desired_size == measured[child_handle].desired_size
             x == IF f32_gt(child_desired_size[1], size[1])
                  THEN child_desired_size[1] ELSE size[1]
             y == IF f32_gt(child_desired_size[2], size[2])
                  THEN child_desired_size[2] ELSE size[2]
         IN measure_children(measured, Tail(children), available_size, Vec2(x, y),
                             Append(calls, [node |-> child_handle,
                                            available_size |-> available_size]))

(***************************************************************************)
(* SpecMeasure: a tree whose nodes were built with some min_size each;     *)
(* measure_override is called on a node, and commit_measure stores a       *)
(* desired size in a node directly.                                        *)
(***************************************************************************)
MinSizes == {Vec2_ZERO, Vec2(1, 2), Vec2(2, 1)}

AvailableSizes == {Vec2(INFINITY, INFINITY), Vec2_ZERO}

BuiltSizedTree(shape, mins) ==
    [n \in TreeHandles |->
        set_parent(
            add_node(WidgetBuilder_build(
                         with_children(with_min_size(WidgetBuilder_new, mins[n]),
                                       ChildrenIn(shape, n, 1))), n),
            shape[n])]

InitMeasure ==
    /\ \E shape \in StartShapes, mins \in [TreeHandles -> MinSizes] :
          nodes = BuiltSizedTree(shape, mins)
    /\ InitRest

CountedCall ==
    /\ ops < MaxTreeOps
    /\ ops' = ops + 1
    /\ UNCHANGED <<tabs, queue, last_click, removed>>

MeasureOverride(n, available_size) ==
    LET r == measure_override(nodes, n, available_size)
    IN /\ nodes' = r.pool
       /\ ret' = [op |-> "measure_override", node |-> n,
                  available_size |-> available_size, value |-> r.size, calls |-> r.calls]
       /\ CountedCall

CommitMeasureOf(n, size) ==
    /\ nodes' = [nodes EXCEPT ![n] = commit_measure(@, size)]
    /\ UNCHANGED ret
    /\ CountedCall

NextMeasure ==
    \/ \E n \in TreeHandles, a \in AvailableSizes : MeasureOverride(n, a)
    \/ \E n \in TreeHandles : CommitMeasureOf(n, Vec2(MaxF, 0))

SpecMeasure == InitMeasure /\ [][NextMeasure]_vars

(***************************************************************************)
(* Widget::has_descendant: the loop over the children, with the recursive  *)
(* call on each child that is not the handle looked for.                   *)
(***************************************************************************)
RECURSIVE has_descendant(_, _, _)
RECURSIVE has_descendant_from(_, _, _)

(* has_descendant without the recursive call.                              *)
has_descendant_children_only(pool, n, node_handle) ==
    \E i \in 1..Len(pool[n].children) : pool[n].children[i] = node_handle

has_descendant(pool, n, node_handle) ==
    has_descendant_from(pool, pool[n].children, node_handle)

has_descendant_from(pool, children, node_handle) ==
    IF children = <<>> THEN FALSE
    ELSE IF Head(children) = node_handle THEN TRUE
    ELSE IF has_descendant(pool, Head(children), node_handle) THEN TRUE
    ELSE has_descendant_from(pool, Tail(children), node_handle)

(***************************************************************************)
(* Widget::find_by_criteria_up.  func is the set of the handles of the     *)
(* nodes the predicate holds for; tested lists the nodes the predicate was *)
(* called on, in order.                                                    *)
(***************************************************************************)
RECURSIVE find_up_from(_, _, _, _)
find_up_from(pool, parent_handle, func, tested) ==
    IF is_some(parent_handle)
    THEN IF parent_handle \in func
         THEN [value |-> parent_handle, tested |-> Append(tested, parent_handle)]
         ELSE find_up_from(pool, pool[parent_handle].parent, func,
                           Append(tested, parent_handle))
    ELSE [value |-> NONE, tested |-> tested]

(* find_by_criteria_up that starts at the widget instead of its parent.    *)
find_by_criteria_up_from_self(pool, n, func) == find_up_from(pool, n, func, <<>>)

find_by_criteria_up(pool, n, func) == find_up_from(pool, pool[n].parent, func, <<>>)

(***************************************************************************)
(* SpecQuery: has_descendant and find_by_criteria_up are called on the     *)
(* nodes of a built tree.                                                  *)
(***************************************************************************)
InitQuery ==
    /\ \E shape \in Shapes : nodes = BuiltTree(shape, [n \in TreeHandles |-> TRUE])
    /\ InitRest

HasDescendant(n, node_handle) ==
    /\ ret' = [op |-> "has_descendant", node |-> n, target |-> node_handle,
               value |-> has_descendant(nodes, n, node_handle)]
    /\ UNCHANGED <<nodes, tabs, queue, last_click, removed, ops>>

FindByCriteriaUp(n, func) ==
    LET r == find_by_criteria_up(nodes, n, func)
    IN /\ ret' = [op |-> "find_by_criteria_up", node |-> n, func |-> func,
                  value |-> r.value, tested |-> r.tested]
       /\ UNCHANGED <<nodes, tabs, queue, last_click, removed, ops>>

NextQuery ==
    \/ \E n \in TreeHandles, t \in TreeHandles \cup {NONE} : HasDescendant(n, t)
    \/ \E n \in TreeHandles, func \in SUBSET TreeHandles : FindByCriteriaUp(n, func)

SpecQuery == InitQuery /\ [][NextQuery]_vars

(***************************************************************************)
(* Claims about the tab control, checked under SpecTab.                    *)
(***************************************************************************)
TabHandlesOf(ts) ==
    {ts[i].header_button : i \in 1..Len(ts)} \cup {ts[i].content : i \in 1..Len(ts)}

(* Every header_button and content handle is valid, and all are distinct.  *)
AllValidDistinct(ts) ==
    /\ NONE \notin TabHandlesOf(ts)
    /\ Cardinality(TabHandlesOf(ts)) = 2 * Len(ts)

(* C1: with all tab handles valid and pairwise distinct, handling a Click  *)
(* addressed to tab k's header_button appends to the queue exactly one     *)
(* Visibility message per tab, in tab order, addressed to that tab's       *)
(* content, with value true iff the tab is tab k; and once the queue has   *)
(* been dispatched, tab k's content is visible and every other tab's       *)
(* content is hidden.                                                      *)
C1_ClickSendsOnePerTab ==
    \A k \in 1..Len(tabs) :
        (AllValidDistinct(tabs) /\ Click(tabs[k].header_button)) =>
            /\ Len(queue') = Len(queue) + Len(tabs)
            /\ SubSeq(queue', 1, Len(queue)) = queue
            /\ \A j \in 1..Len(tabs) :
                  queue'[Len(queue) + j] =
                      [destination |-> tabs[j].content,
                       data |-> [cat |-> "Widget", kind |-> "Visibility", val |-> (j = k)]]
            /\ last_click'.tab = k

C1_OneVisibleAfterDispatch ==
    (AllValidDistinct(tabs) /\ last_click.tab # 0 /\ queue = <<>>) =>
        \A j \in 1..Len(tabs) : nodes[tabs[j].content].visibility = (j = last_click.tab)

(* C1: every handled click on a valid, distinct tab sends one Visibility   *)
(* message per tab as above, and after the dispatch exactly the clicked    *)
(* tab's content is visible.                                               *)
C1_TabClickExclusive == [][C1_ClickSendsOnePerTab]_vars /\ []C1_OneVisibleAfterDispatch

(* A click on the last of MaxTabs distinct tabs has been dispatched.       *)
C1_Witness ==
    /\ Len(tabs) = MaxTabs
    /\ AllValidDistinct(tabs)
    /\ last_click = [destination |-> tabs[MaxTabs].header_button, tab |-> MaxTabs]
    /\ queue = <<>>
    /\ nodes[tabs[MaxTabs].content].visibility
    /\ \A j \in 1..(MaxTabs - 1) : ~nodes[tabs[j].content].visibility

(* C4: a Click addressed to the header_button of a tab whose content       *)
(* remove_ref has set to NONE sends no message and changes no node.        *)
C4_ClickOnClearedTab ==
    \A i \in 1..Len(tabs) :
        (is_none(tabs[i].content) /\ Click(tabs[i].header_button)) =>
            /\ queue' = queue
            /\ nodes' = nodes
            /\ last_click'.tab = 0

(* C4: every click on the header of a tab whose content is NONE is a no-op. *)
C4_ClearedTabClickNoOp == [][C4_ClickOnClearedTab]_vars

(* The control handled a click on the live header of a cleared tab, while  *)
(* another tab could still be activated, and sent nothing.                 *)
C4_Witness ==
    \E i, j \in 1..Len(tabs) :
        /\ is_none(tabs[i].content)
        /\ is_some(tabs[i].header_button)
        /\ last_click = [destination |-> tabs[i].header_button, tab |-> 0]
        /\ tab_matches(tabs[j], tabs[j].header_button)
        /\ queue = <<>>

(* C5: remove_ref(h) for a handle h other than NONE leaves no tab field    *)
(* equal to h, sets exactly the fields that were equal to h to NONE, and   *)
(* keeps the number and order of tabs.                                     *)
C5_RemoveRefStep ==
    \A h \in ContentHandles \cup ButtonHandles :
        RemoveRef(h) =>
            /\ Len(tabs') = Len(tabs)
            /\ \A i \in 1..Len(tabs) :
                  /\ tabs'[i].header_button # h
                  /\ tabs'[i].content # h
                  /\ tabs'[i].header_button =
                        (IF tabs[i].header_button = h THEN NONE ELSE tabs[i].header_button)
                  /\ tabs'[i].content =
                        (IF tabs[i].content = h THEN NONE ELSE tabs[i].content)

(* C5: every remove_ref clears exactly the fields equal to its handle.     *)
C5_RemoveRefClearsAll == [][C5_RemoveRefStep]_vars

(* One remove_ref has cleared the content of two tabs that shared it and   *)
(* left a third tab whole.                                                 *)
C5_Witness ==
    /\ Cardinality(removed) = 1
    /\ \E i, j, k \in 1..Len(tabs) :
          /\ i # j
          /\ is_none(tabs[i].content) /\ is_some(tabs[i].header_button)
          /\ is_none(tabs[j].content) /\ is_some(tabs[j].header_button)
          /\ is_some(tabs[k].content) /\ is_some(tabs[k].header_button)

(***************************************************************************)
(* Claims about one widget, checked under SpecWidget.                      *)
(***************************************************************************)
CommitMeasureStep == \E size \in PosInputs : CommitMeasure(size)

CommitArrangeStep == \E size \in PosInputs : CommitArrange(Vec2_ZERO, size)

BothInvalid(w) == ~w.measure_valid /\ ~w.arrange_valid

(* A layout-affecting message addressed to W that changes the stored value. *)
ChangingMessageStep ==
    \E kind \in LayoutKinds :
        /\ FieldOf(nodes'[W], kind) # FieldOf(nodes[W], kind)
        /\ \E val \in PayloadsOf(kind) : Deliver(W, kind, val)

(* Each flag, once false, stays false under every step that is not its     *)
(* commit.                                                                 *)
StaysInvalidUntilCommit ==
    /\ (~nodes[W].measure_valid /\ nodes'[W].measure_valid) => CommitMeasureStep
    /\ (~nodes[W].arrange_valid /\ nodes'[W].arrange_valid) => CommitArrangeStep

(* C2 as stated: after add_child, remove_child or a layout-affecting       *)
(* message that changes the stored value, both flags are false, and each   *)
(* stays false until its next commit.                                      *)
C2_Original_Step ==
    /\ ~BothInvalid(nodes'[W]) =>
          ~((\E h \in {Other, Other + 1} : AddChild(h) \/ RemoveChild(h))
            \/ ChangingMessageStep)
    /\ StaysInvalidUntilCommit

(* C2 as stated, over every step.                                          *)
C2_Original == [][C2_Original_Step]_vars

(* C2 as amended: the same, for a remove_child whose handle is in the      *)
(* child list; a remove_child of a handle that is not in the list leaves   *)
(* the flags as they were.                                                 *)
C2_Amended_Step ==
    /\ ~BothInvalid(nodes'[W]) =>
          ~((\E h \in {Other, Other + 1} :
                AddChild(h) \/ (position(nodes[W].children, h) # 0 /\ RemoveChild(h)))
            \/ ChangingMessageStep)
    /\ \A h \in {Other, Other + 1} :
          (position(nodes[W].children, h) = 0 /\ RemoveChild(h)) =>
              /\ nodes'[W].measure_valid = nodes[W].measure_valid
              /\ nodes'[W].arrange_valid = nodes[W].arrange_valid
    /\ StaysInvalidUntilCommit

(* C2 as amended, over every step.                                         *)
C2_InvalidatedUntilCommit == [][C2_Amended_Step]_vars

(* A measured and arranged widget with default row has received Row(1):    *)
(* both flags are false again.                                             *)
C2_Witness ==
    /\ ops = 3
    /\ nodes[W].desired_size = Vec2(1, 1)
    /\ nodes[W].actual_size = Vec2(1, 1)
    /\ nodes[W].row = 1
    /\ BothInvalid(nodes[W])

(* C3: a layout-affecting message whose value is the widget's current      *)
(* value leaves every field of the widget unchanged.                       *)
C3_Step ==
    nodes'[W] # nodes[W] =>
        \A kind \in LayoutKinds :
            ~(FieldOf(nodes[W], kind) \in PayloadsOf(kind)
              /\ Deliver(W, kind, FieldOf(nodes[W], kind)))

(* C3: every delivery of a layout-affecting message that carries the       *)
(* current value changes nothing.                                          *)
C3_IdempotentDispatch == [][C3_Step]_vars

(* C6: a width or height that is set lies within [min_size, max_size] on   *)
(* its axis.                                                               *)
C6_SizeWithinBounds ==
    /\ ~is_nan(nodes[W].width) =>
          nodes[W].min_size[1] <= nodes[W].width /\ nodes[W].width <= nodes[W].max_size[1]
    /\ ~is_nan(nodes[W].height) =>
          nodes[W].min_size[2] <= nodes[W].height /\ nodes[W].height <= nodes[W].max_size[2]

(* w clamped into [lo, hi]: lo when w is below lo, hi when w is above hi,  *)
(* otherwise w.                                                            *)
Clamped(w, lo, hi) ==
    IF ~is_nan(w) /\ w < lo THEN lo ELSE IF ~is_nan(w) /\ w > hi THEN hi ELSE w

(* C7: with min_size <= max_size on the axis, set_width(w) stores w        *)
(* clamped into [min_size.x, max_size.x], set_height(w) stores w clamped   *)
(* into [min_size.y, max_size.y], and no other field changes.              *)
C7_Step ==
    \A v \in F32 :
        /\ (SetWidth(v) /\ nodes[W].min_size[1] <= nodes[W].max_size[1]) =>
              nodes'[W] = [nodes[W] EXCEPT
                              !.width = Clamped(v, nodes[W].min_size[1], nodes[W].max_size[1])]
        /\ (SetHeight(v) /\ nodes[W].min_size[2] <= nodes[W].max_size[2]) =>
              nodes'[W] = [nodes[W] EXCEPT
                              !.height = Clamped(v, nodes[W].min_size[2], nodes[W].max_size[2])]

(* C7: every set_width and set_height stores the clamped value and changes *)
(* nothing else.                                                           *)
C7_SetSizeClamps == [][C7_Step]_vars

(* C10 as stated: add_child, remove_child and clear_children set both      *)
(* flags to false on every call.                                           *)
C10_Original_Step ==
    ~BothInvalid(nodes'[W]) =>
        ~((\E h \in {Other, Other + 1} : AddChild(h) \/ RemoveChild(h)) \/ ClearChildren)

C10_Amended_Step ==
    ~BothInvalid(nodes'[W]) =>
        /\ ~((\E h \in {Other, Other + 1} : AddChild(h)) \/ ClearChildren)
        /\ \A h \in {Other, Other + 1} :
              RemoveChild(h) =>
                  /\ position(nodes[W].children, h) = 0
                  /\ nodes'[W] = nodes[W]

RECURSIVE AncestorsOf(_, _, _)
AncestorsOf(pool, n, fuel) ==
    IF fuel = 0 \/ is_none(pool[n].parent) THEN {}
    ELSE {pool[n].parent} \cup AncestorsOf(pool, pool[n].parent, fuel - 1)

(* C8: a node's global_visibility is false whenever its own visibility is  *)
(* false or the global_visibility of one of its ancestors is false.        *)
VisibilityConsistent(pool) ==
    \A n \in DOMAIN pool :
        (~pool[n].visibility
         \/ \E a \in AncestorsOf(pool, n, NumNodes) : ~pool[a].global_visibility)
            => ~pool[n].global_visibility

(* C8 as stated: the implication holds in every reachable state.           *)
C8_Original == VisibilityConsistent(nodes)

(* C8 as amended: the implication holds right after a visibility update    *)
(* pass over the tree.                                                     *)
C8_AfterUpdate_Step == ~VisibilityConsistent(nodes') => ~UpdateVisibility

(* C8 as amended, over every step.                                         *)
C8_GlobalVisibilityAfterUpdate == [][C8_AfterUpdate_Step]_vars

(* A visible grandchild of a hidden root has been turned globally          *)
(* invisible, together with its visible parent.                            *)
C8_Witness ==
    \E n \in TreeHandles :
        LET p == nodes[n].parent
        IN /\ is_some(p)
           /\ is_some(nodes[p].parent)
           /\ ~nodes[nodes[p].parent].visibility
           /\ nodes[p].visibility /\ ~nodes[p].global_visibility
           /\ nodes[n].visibility /\ ~nodes[n].global_visibility
           /\ nodes[n].prev_global_visibility
           /\ VisibilityConsistent(nodes)

(* C9: every handle in a node's child list names a node whose parent is    *)
(* that node.                                                              *)
ParentsConsistent(pool) ==
    \A n \in DOMAIN pool : \A i \in 1..Len(pool[n].children) :
        /\ pool[n].children[i] \in DOMAIN pool
        /\ pool[pool[n].children[i]].parent = n

(* C9 as stated: the child lists and parents agree in every reachable      *)
(* state.                                                                  *)
C9_Original == ParentsConsistent(nodes)

NoDuplicateChildren(pool) ==
    \A n \in DOMAIN pool : \A i, j \in 1..Len(pool[n].children) :
        pool[n].children[i] = pool[n].children[j] => i = j

(* C9 as amended: linking a node under another, and unlinking a node, keep *)
(* the child lists free of duplicates and every listed child's parent      *)
(* equal to the listing node.                                              *)
C9_Linked_Step ==
    (ParentsConsistent(nodes) /\ NoDuplicateChildren(nodes)
     /\ ~(ParentsConsistent(nodes') /\ NoDuplicateChildren(nodes')))
        => /\ \A c, parent \in TreeHandles : ~LinkNodes(c, parent)
           /\ \A c \in TreeHandles : ~UnlinkNode(c)

(* C9 as amended, over every step.                                         *)
C9_LinkKeepsParents == [][C9_Linked_Step]_vars

(* Two links have made node 1 a child of node 2 and node 2 a child of node *)
(* 3, against the handle order of every starting tree.                     *)
C9_Witness ==
    /\ ops = 2
    /\ nodes[1].parent = 2 /\ nodes[2].parent = 3 /\ nodes[3].parent = NONE
    /\ nodes[1].children = <<>> /\ nodes[2].children = <<1>> /\ nodes[3].children = <<2>>

(***************************************************************************)
(* Claims about TabControlBuilder::build, checked under SpecBuild.         *)
(***************************************************************************)
BuildPairsTabs(defs) ==
    /\ Len(tabs') = Len(defs)
    /\ \A i \in 1..Len(defs) :
          /\ tabs'[i] = Tab(ButtonHandle(i), defs[i])
          /\ \A j \in 1..Len(defs) : tabs'[i].header_button = tabs'[j].header_button => i = j

C11_Original_Step ==
    \A defs \in ContentDefs :
        Build(defs) =>
            /\ nodes'[defs[1]].visibility
            /\ \A i \in 2..Len(defs) : ~nodes'[defs[i]].visibility
            /\ BuildPairsTabs(defs)

(* C11 as stated: right after build, tab 0's content is visible and every  *)
(* later tab's content is hidden, whatever they were before, and the tab   *)
(* list pairs the i-th created button with the i-th content.               *)
C11_Original == [][C11_Original_Step]_vars

C11_Amended_Step ==
    \A defs \in ContentDefs :
        Build(defs) =>
            /\ \A i \in 2..Len(defs) : ~nodes'[defs[i]].visibility
            /\ (\A i \in 2..Len(defs) : defs[i] # defs[1]) =>
                  nodes'[defs[1]].visibility = nodes[defs[1]].visibility
            /\ \A h \in DOMAIN nodes : nodes'[h].visibility => nodes[h].visibility
            /\ BuildPairsTabs(defs)

(* C11 as amended: right after build, the content of every tab with index  *)
(* > 0 is hidden; tab 0's content, when no later tab uses the same node,   *)
(* has the visibility it had before build; build makes no node visible;    *)
(* and the tab list pairs the i-th created button with the i-th content.   *)
C11_BuildHidesAllButFirst == [][C11_Amended_Step]_vars

(* A control was built on MaxTabs distinct content nodes of which the      *)
(* first was hidden before: no content is visible.                         *)
C11_Witness ==
    /\ Len(tabs) = MaxTabs
    /\ AllValidDistinct(tabs)
    /\ ControlHandle \in DOMAIN nodes
    /\ \A i \in 1..MaxTabs : ~nodes[tabs[i].content].visibility
    /\ last_click = [destination |-> NONE, tab |-> 0]
    /\ queue = <<>>

(***************************************************************************)
(* Claims about raw_copy, checked under SpecCopy.                          *)
(***************************************************************************)
CopiedFields ==
    {"children", "background", "foreground", "name", "width", "height", "min_size",
     "max_size", "margin", "vertical_alignment", "horizontal_alignment", "row", "column",
     "desired_local_position", "visibility", "parent"}

C12_Step ==
    RawCopy =>
        /\ \A f \in CopiedFields : ret'.value[f] = nodes[W][f]
        /\ ret'.value.handle = NONE
        /\ ~ret'.value.measure_valid
        /\ ~ret'.value.arrange_valid
        /\ nodes' = nodes

(* C12: raw_copy returns a widget whose children, brushes, name, width,    *)
(* height, min/max size, margin, alignments, row, column, desired          *)
(* position, visibility and parent equal the original's, whose handle is   *)
(* NONE and whose layout flags are false; the original is unchanged.       *)
C12_RawCopyKeepsFields == [][C12_Step]_vars

(* A measured and arranged widget with a child and a handle has been       *)
(* copied: the copy has the child, no handle and both flags false.         *)
C12_Witness ==
    /\ ret.op = "raw_copy"
    /\ nodes[W].measure_valid /\ nodes[W].arrange_valid
    /\ nodes[W].handle = W
    /\ nodes[W].children # <<>>
    /\ ret.value.children = nodes[W].children
    /\ ret.value.handle = NONE
    /\ ~ret.value.measure_valid /\ ~ret.value.arrange_valid

C19_Original_Step ==
    RawCopy =>
        /\ ret'.value.desired_size = Vec2_ZERO
        /\ ret'.value.actual_local_position = Vec2_ZERO
        /\ ret'.value.actual_size = Vec2_ZERO
        /\ ret'.value.prev_measure = Vec2_ZERO
        /\ ret'.value.prev_arrange = Rect_default
        /\ ret'.value.command_indices = <<>>

(* C19 as stated: on the copy desired_size, actual_local_position,         *)
(* actual_size, prev_measure and prev_arrange are zero and command_indices *)
(* is empty, whatever the original's layout state.                         *)
C19_Original == [][C19_Original_Step]_vars

C19_Amended_Step ==
    RawCopy =>
        /\ ret'.value.prev_measure = Vec2_ZERO
        /\ ret'.value.prev_arrange = Rect_default
        /\ ret'.value.command_indices = <<>>
        /\ ret'.value.desired_size = nodes[W].desired_size
        /\ ret'.value.actual_local_position = nodes[W].actual_local_position
        /\ ret'.value.actual_size = nodes[W].actual_size

(* C19 as amended: on the copy prev_measure and prev_arrange are zero and  *)
(* command_indices is empty, whatever the original's; desired_size,        *)
(* actual_local_position and actual_size are the original's.               *)
C19_RawCopyFreshCaches == [][C19_Amended_Step]_vars

(* A widget measured to (1, 1) with prev_measure (1, 1) and one command    *)
(* index has been copied: the copy keeps the desired size and has a zero   *)
(* prev_measure and no command index.                                      *)
C19_Witness ==
    /\ ret.op = "raw_copy"
    /\ nodes[W].desired_size = Vec2(1, 1)
    /\ nodes[W].prev_measure = Vec2(1, 1)
    /\ nodes[W].command_indices = <<0>>
    /\ ret.value.desired_size = Vec2(1, 1)
    /\ ret.value.prev_measure = Vec2_ZERO
    /\ ret.value.command_indices = <<>>

(***************************************************************************)
(* Claims about the measure pass, checked under SpecMeasure.               *)
(***************************************************************************)
(* The largest k-th component of the desired sizes of the given children,  *)
(* 0 for no children.                                                      *)
LargestDesired(pool, children, k) ==
    IF children = <<>> THEN 0
    ELSE MaxOf({pool[children[i]].desired_size[k] : i \in 1..Len(children)})

C13_Step ==
    \A n \in TreeHandles, a \in AvailableSizes :
        MeasureOverride(n, a) =>
            LET children == nodes[n].children
            IN /\ ret'.calls = [i \in 1..Len(children) |->
                                   [node |-> children[i], available_size |-> a]]
               /\ ret'.value = Vec2(LargestDesired(nodes', children, 1),
                                    LargestDesired(nodes', children, 2))
               /\ nodes'[n].measure_valid = nodes[n].measure_valid
               /\ nodes'[n].desired_size = nodes[n].desired_size

(* C13: the base measure_override measures every child once, in child      *)
(* order, against the available size it was given, returns the             *)
(* component-wise maximum of the children's desired sizes after that       *)
(* ((0, 0) without children), and leaves the widget's own measure_valid    *)
(* and desired_size alone.                                                 *)
C13_MeasureOverrideIsMax == [][C13_Step]_vars

(* measure_override on a node with two children of desired sizes (1, 2)    *)
(* and (2, 1) has returned (2, 2).                                         *)
C13_Witness ==
    /\ ret.op = "measure_override"
    /\ Len(nodes[ret.node].children) = 2
    /\ nodes[nodes[ret.node].children[1]].desired_size = Vec2(1, 2)
    /\ nodes[nodes[ret.node].children[2]].desired_size = Vec2(2, 1)
    /\ Len(ret.calls) = 2
    /\ ret.value = Vec2(2, 2)

(***************************************************************************)
(* Claims about the tree walks, checked under SpecQuery.                   *)
(***************************************************************************)
(* C14: has_descendant(target) on node N is true exactly when N is on the  *)
(* parent chain of target, hence false for N itself, for a sibling, for an *)
(* ancestor of N and for NONE.                                             *)
C14_HasDescendantIsProper ==
    ret.op = "has_descendant" =>
        /\ ret.value = (/\ ret.target \in TreeHandles
                        /\ ret.node \in AncestorsOf(nodes, ret.target, NumNodes))
        /\ ret.target = ret.node => ~ret.value
        /\ ret.target = NONE => ~ret.value
        /\ ret.target \in AncestorsOf(nodes, ret.node, NumNodes) => ~ret.value
        /\ (/\ ret.target \in TreeHandles
            /\ ret.target # ret.node
            /\ nodes[ret.target].parent = nodes[ret.node].parent) => ~ret.value

(* has_descendant has returned true for a grandchild.                      *)
C14_Witness ==
    /\ ret.op = "has_descendant"
    /\ ret.value
    /\ ret.target \in TreeHandles
    /\ is_some(nodes[ret.target].parent)
    /\ nodes[nodes[ret.target].parent].parent = ret.node

IgnoredMessages ==
    UNION {{UiMessage(Other, "Widget", kind, val) : val \in PayloadsOf(kind)} :
               kind \in WidgetKinds} \cup
    {ButtonMessage_click(d) : d \in {W, Other}} \cup
    {UiMessage(d, "Widget", "Unmatched", FALSE) : d \in {W, Other}}

(* C16: a message addressed to another handle, or one whose payload is not *)
(* a WidgetMessage variant the handler matches, leaves every field of the  *)
(* widget unchanged, in every state the widget can be in.                  *)
C16_HandlerIgnoresOthers ==
    tabs = <<>> =>
    \A msg \in IgnoredMessages : Widget_handle_routed_message(nodes[W], msg) = nodes[W]

(* A measured and arranged widget has been through a third operation and   *)
(* not one of its fields has changed since the commits.                    *)
C16_Witness ==
    /\ tabs = <<>>
    /\ ops = 3
    /\ \E b \in BuilderConfigs :
          nodes[W] = commit_arrange(commit_measure(add_node(WidgetBuilder_build(b), W),
                                                   Vec2(1, 1)), Vec2_ZERO, Vec2(1, 1))

FlagsKept == /\ nodes'[W].measure_valid = nodes[W].measure_valid
             /\ nodes'[W].arrange_valid = nodes[W].arrange_valid

C17_Step == ~FlagsKept => ~Setter

(* What each setter makes of the widget as it is now: the widget with the  *)
(* one field replaced (set_width and set_height by the value their         *)
(* clamping yields).                                                       *)
C17_Stores ==
    LET w == nodes[W] IN
    /\ \A v \in F32 :
          /\ set_width(w, v) = [w EXCEPT !.width = set_width(w, v).width]
          /\ set_height(w, v) = [w EXCEPT !.height = set_height(w, v).height]
    /\ \A v \in Vec2Inputs :
          /\ set_min_size(w, v) = [w EXCEPT !.min_size = v]
          /\ set_max_size(w, v) = [w EXCEPT !.max_size = v]
    /\ \A v \in PosInputs :
          set_desired_local_position(w, v) = [w EXCEPT !.desired_local_position = v]
    /\ \A v \in IndexInputs :
          /\ set_row(w, v) = [w EXCEPT !.row = v]
          /\ set_column(w, v) = [w EXCEPT !.column = v]
    /\ \A v \in MarginInputs : set_margin(w, v) = [w EXCEPT !.margin = v]
    /\ \A v \in BOOLEAN : set_visibility(w, v) = [w EXCEPT !.visibility = v]
    /\ \A v \in AlignInputs :
          /\ set_vertical_alignment(w, v) = [w EXCEPT !.vertical_alignment = v]
          /\ set_horizontal_alignment(w, v) = [w EXCEPT !.horizontal_alignment = v]

(* C17: no step of a direct setter changes measure_valid or arrange_valid, *)
(* and each setter changes no field but its own, in which it stores the    *)
(* value (set_width and set_height the value their clamping yields).       *)
C17_SettersKeepFlags == [][C17_Step]_vars /\ []C17_Stores

(* A measured and arranged widget has had its row set to 1 by set_row:     *)
(* both flags are still true.                                              *)
C17_Witness ==
    /\ ops = 3
    /\ nodes[W].measure_valid /\ nodes[W].arrange_valid
    /\ nodes[W].desired_size = Vec2(1, 1)
    /\ nodes[W].actual_size = Vec2(1, 1)
    /\ nodes[W].row = 1

C18_Step ==
    /\ \A size \in PosInputs :
          CommitMeasure(size) =>
              nodes'[W] = [nodes[W] EXCEPT !.desired_size = size, !.measure_valid = TRUE]
    /\ \A pos \in PosInputs, size \in PosInputs :
          CommitArrange(pos, size) =>
              nodes'[W] = [nodes[W] EXCEPT !.actual_local_position = pos,
                                           !.actual_size = size, !.arrange_valid = TRUE]
    /\ InvalidateLayout =>
          nodes'[W] = [nodes[W] EXCEPT !.measure_valid = FALSE, !.arrange_valid = FALSE]

(* C18: commit_measure stores the desired size and sets measure_valid      *)
(* without touching arrange_valid; commit_arrange stores the position and  *)
(* the size and sets arrange_valid without touching measure_valid;         *)
(* invalidate_layout resets both flags from any state.                     *)
C18_LayoutStateMachine == [][C18_Step]_vars

(* A widget measured, then arranged at (1, 1), has been invalidated: both  *)
(* flags are false and the results of the passes are still stored.         *)
C18_Witness ==
    /\ ops = 3
    /\ nodes[W].desired_size = Vec2(1, 1)
    /\ nodes[W].actual_local_position = Vec2(1, 1)
    /\ nodes[W].actual_size = Vec2(1, 1)
    /\ nodes[W].children = <<>>
    /\ nodes[W].visibility
    /\ BothInvalid(nodes[W])

(* Node h's layout was recomputed in the step: a flag went from false to   *)
(* true, or a result of a pass was written.                                *)
LayoutRecomputed(h) ==
    \/ ~nodes[h].measure_valid /\ nodes'[h].measure_valid
    \/ ~nodes[h].arrange_valid /\ nodes'[h].arrange_valid
    \/ nodes'[h].desired_size # nodes[h].desired_size
    \/ nodes'[h].actual_size # nodes[h].actual_size
    \/ nodes'[h].actual_local_position # nodes[h].actual_local_position

MessageProcessingStep ==
    \/ Message
    \/ \E d \in {W, Other} : DeliverUnmatched(d)
    \/ \E h \in ButtonHandles \cup {NONE} : Click(h)
    \/ Dispatch

C20_Step ==
    /\ (\E h \in DOMAIN nodes : LayoutRecomputed(h)) => ~MessageProcessingStep
    /\ \A h \in DOMAIN nodes :
          /\ (~nodes[h].measure_valid /\ nodes'[h].measure_valid) => CommitMeasureStep
          /\ (~nodes[h].arrange_valid /\ nodes'[h].arrange_valid) => CommitArrangeStep

(* C20: no step of message processing (the Widget's handler, the tab       *)
(* control's click handler, the dispatch of the messages it sent) sets a   *)
(* layout flag or writes desired_size, actual_size or                      *)
(* actual_local_position; a flag goes from false to true only in           *)
(* commit_measure or commit_arrange.                                       *)
C20_MessagesNeverRecompute == [][C20_Step]_vars

(* The dispatch of a tab click has invalidated the content whose           *)
(* visibility changed and left its measured size and the flags of another  *)
(* content alone.                                                          *)
C20_Witness ==
    /\ tabs # <<>>
    /\ last_click.tab # 0
    /\ queue = <<>>
    /\ \E i, j \in 1..Len(tabs) :
          /\ BothInvalid(nodes[tabs[i].content])
          /\ nodes[tabs[i].content].desired_size = Vec2(1, 1)
          /\ nodes[tabs[i].content].actual_size = Vec2(1, 1)
          /\ nodes[tabs[j].content].measure_valid
          /\ nodes[tabs[j].content].arrange_valid

(***************************************************************************)
(* Claims about the tab control after remove_ref, checked under SpecTab    *)
(* and SpecResolve.                                                        *)
(***************************************************************************)
(* C21: every Visibility message the control has sent while handling a     *)
(* Click, in any state reached by build, remove_ref calls and Clicks, is   *)
(* addressed to a handle other than NONE.                                  *)
C21_NoMessageToNone ==
    \A k \in 1..Len(queue) : is_some(queue[k].destination)

(* The tabs with every handle replaced by its image under the map.         *)
Remapped(ts, node_map) ==
    [i \in 1..Len(ts) |-> Tab(node_map[ts[i].header_button], node_map[ts[i].content])]

(* C22: resolve with a map that has an entry for every live node handle    *)
(* completes without failure and leaves every tab's header_button and      *)
(* content replaced by the map's image of the handle, in every state       *)
(* reached by build and remove_ref calls.                                  *)
C22_ResolveCompletes ==
    (ret.op = "resolve" /\ LiveHandles \subseteq DOMAIN ret.node_map) =>
        /\ ~ret.panicked
        /\ tabs = Remapped(ret.before, ret.node_map)

(* C23: the raw_copy of a tab control has no tabs whatever the original    *)
(* holds; resolve on the copy completes and rewrites nothing; a Button     *)
(* Click routed to the copy sends no message and leaves the copy as it is. *)
C23_CopyHasNoTabs ==
    /\ ret.op = "raw_copy" => ret.copy.tabs = <<>>
    /\ ret.op = "resolve_copy" => ~ret.panicked /\ ret.copy = ret.before
    /\ ret.op = "click_copy" => ret.sent = <<>> /\ ret.copy = ret.before

(* The copy of a control with MaxTabs whole tabs was resolved and then     *)
(* clicked on the header button of the original's first tab, a click the   *)
(* original answers with one message per tab.                              *)
C23_Witness ==
    /\ ret.op = "click_copy"
    /\ Len(tabs) = MaxTabs
    /\ AllValidDistinct(tabs)
    /\ ret.destination = tabs[1].header_button
    /\ Len(TabControl_sends(tabs, ButtonMessage_click(ret.destination))) = MaxTabs
    /\ ret.copy.widget = raw_copy(nodes[ControlHandle])

====
